---- MODULE Spec2Model ----
(***************************************************************************)
(* Retrieval pipeline of RAG-pdfs-docker (services/rag-core): query        *)
(* expansion, hybrid search, per-variant rerank, dedup, final sort,        *)
(* truncation, context assembly and generation.                            *)
(*                                                                         *)
(* Strings are sequences of one-character strings, so that split, strip    *)
(* and lower are computed.  Scores are integers (rerank scores may be      *)
(* negative, as cross-encoder logits are).  A Python dict is a record; a   *)
(* key is present iff it is in the record's DOMAIN.                        *)
(***************************************************************************)
EXTENDS Integers, Sequences, FiniteSets, TLC

\* ---------------------------------------------------------------- bounds
MaxLines == 2        \* lines of generated text in a pipeline request
MaxExpandLines == 3  \* lines of generated text when expand is checked alone
MaxId == 6           \* passage ids are 0..MaxId
MaxVariantHits == 3  \* hits the index returns for one variant of an expanded query
MaxContentLen == 203 \* characters of the longest passage when previews are checked
MaxTwoHits == 2      \* hits the index returns per search when two requests run
MaxRerankDocs == 3   \* documents handed to rerank when it is called alone
MaxTopK == 3         \* largest top_k when rerank is called alone
MaxFanOutLines == 4  \* lines of generated text when the fan-out is checked
MaxIntegerId == 1    \* points 0..MaxIntegerId have integer ids, the others UUIDs

\* ------------------------------------------------------ program constants
NumQueries == 3      \* api.py:232 num_queries=3
Limit == 5           \* api.py:241, api.py:306 limit=5
FinalTopK == 5       \* api.py:260 [:5]
PreviewBudget == 200 \* api.py:272 [:200]
SimulatedQueryChars == 50 \* llm_interface.py:157 query[:50]

\* ---------------------------------------------------------------- strings
Min(a, b) == IF a <= b THEN a ELSE b

Max(a, b) == IF a >= b THEN a ELSE b

\* Python seq[:n]
Take(s, n) == SubSeq(s, 1, Min(Len(s), Max(n, 0)))

\* The 29 code points Python counts as whitespace (str.isspace, and what
\* str.strip() with no argument removes).  A code point TLA+ has no escape
\* for is written by its number: "U+000B" is the one character chr(0x0B).
PyWhitespace ==
  {"\t", "\n", "U+000B", "\f", "\r", "U+001C", "U+001D", "U+001E", "U+001F",
   " ", "U+0085", "U+00A0", "U+1680", "U+2000", "U+2001", "U+2002", "U+2003",
   "U+2004", "U+2005", "U+2006", "U+2007", "U+2008", "U+2009", "U+200A",
   "U+2028", "U+2029", "U+202F", "U+205F", "U+3000"}

\* a strip that knows the four ASCII blanks only
IsSpaceAscii(c) == c \in {" ", "\t", "\r", "\n"}

\* characters str.strip() removes
IsSpace(c) == c \in PyWhitespace

\* str.lower() on one character
LowerChar(c) ==
  CASE c = "N" -> "n" [] c = "O" -> "o" [] c = "E" -> "e"
    [] c = "U" -> "u" [] c = "L" -> "l" [] c = "A" -> "a"
    [] c = "B" -> "b" [] c = "Q" -> "q" [] OTHER -> c

\* str.lower()
Lower(s) == [i \in 1..Len(s) |-> LowerChar(s[i])]

RECURSIVE LStrip(_)
LStrip(s) == IF s # <<>> /\ IsSpace(Head(s)) THEN LStrip(Tail(s)) ELSE s

RECURSIVE RStrip(_)
RStrip(s) ==
  IF s # <<>> /\ IsSpace(s[Len(s)]) THEN RStrip(SubSeq(s, 1, Len(s) - 1)) ELSE s

\* str.strip()
Strip(s) == RStrip(LStrip(s))

\* str.split('\n'): always at least one piece
RECURSIVE SplitAcc(_, _, _)
SplitAcc(s, cur, acc) ==
  IF s = <<>> THEN Append(acc, cur)
  ELSE IF Head(s) = "\n" THEN SplitAcc(Tail(s), <<>>, Append(acc, cur))
  ELSE SplitAcc(Tail(s), Append(cur, Head(s)), acc)

SplitLines(s) == SplitAcc(s, <<>>, <<>>)

\* '\n'.join(lines)
RECURSIVE JoinLines(_)
JoinLines(ls) ==
  IF ls = <<>> THEN <<>>
  ELSE IF Len(ls) = 1 THEN ls[1]
  ELSE ls[1] \o <<"\n">> \o JoinLines(Tail(ls))

\* one decimal digit
Digit(d) ==
  CASE d = 0 -> "0" [] d = 1 -> "1" [] d = 2 -> "2" [] d = 3 -> "3"
    [] d = 4 -> "4" [] d = 5 -> "5" [] d = 6 -> "6" [] d = 7 -> "7"
    [] d = 8 -> "8" [] d = 9 -> "9"

\* str(n) of a natural number
RECURSIVE Str(_)
Str(n) == IF n < 10 THEN <<Digit(n)>> ELSE Str(n \div 10) \o <<Digit(n % 10)>>

StrNone == <<"n", "o", "n", "e">>

StrNull == <<"n", "u", "l", "l">>

IsSentinelCaseSensitive(q) == q \in {StrNone, StrNull}

\* q.lower() in ["none", "null"]
IsSentinel(q) == Lower(q) \in {StrNone, StrNull}

\* what LLMInterface.generate_response returns from its except branch
SorryMessage ==
  <<"S", "o", "r", "r", "y", ",", " ", "t", "h", "e", "r", "e", " ", "w",
    "a", "s", " ", "a", "n", " ", "e", "r", "r", "o", "r", " ", "g", "e",
    "n", "e", "r", "a", "t", "i", "n", "g", " ", "t", "h", "e", " ", "r",
    "e", "s", "p", "o", "n", "s", "e", ".", " ", "P", "l", "e", "a", "s",
    "e", " ", "t", "r", "y", " ", "a", "g", "a", "i", "n", ".">>

\* ------------------------------------------------------------ QueryRewriter
\* The llm_interface held by a QueryRewriter: the repository's LLMInterface,
\* or any other object with a generate_response method (duck typing).
LLMKinds == {"LLMInterface", "duck"}

\* Does generate_response(query=, context_chunks=, max_tokens=,
\* system_prompt_override=) bind?  LLMInterface.generate_response has no
\* parameter context_chunks (it is context_retrieval_context), so the call
\* raises TypeError before the method body runs.
CallBindsAlways(kind) == TRUE

CallBinds(kind) == kind # "LLMInterface"

\* Outcome of the generate_response call made by the QueryRewriter: the
\* TypeError of a call that does not bind, or what the object behind a call
\* that binds does, svc:
\*   [raises |-> TRUE]  or  [raises |-> FALSE, text |-> string]
\* The body of LLMInterface.generate_response is never entered from here.
LLMCall(kind, svc) == IF ~CallBinds(kind) THEN [raises |-> TRUE] ELSE svc

\* lines 147-159 of expand_query_multiple, on the generated text
ParseQueriesNoFallback(original_query, response_text) ==
  LET stripped == [i \in 1..Len(SplitLines(response_text)) |->
                     Strip(SplitLines(response_text)[i])]
      Usable(q) == q # <<>> /\ ~IsSentinel(q)
  IN  SelectSeq(stripped, Usable)

\* a parse without the last filter: sentinel lines stay among usable ones
ParseQueriesKeepsSentinels(original_query, response_text) ==
  LET stripped == [i \in 1..Len(SplitLines(response_text)) |->
                     Strip(SplitLines(response_text)[i])]
      NonEmpty(q) == q # <<>>
      queries == SelectSeq(stripped, NonEmpty)
  IN  IF queries = <<>> \/ \A i \in 1..Len(queries) : IsSentinel(queries[i])
        THEN <<original_query>>
        ELSE queries

ParseQueries(original_query, response_text) ==
  LET stripped == [i \in 1..Len(SplitLines(response_text)) |->
                     Strip(SplitLines(response_text)[i])]
      NonEmpty(q) == q # <<>>
      NotSentinel(q) == ~IsSentinel(q)
      queries == SelectSeq(stripped, NonEmpty)
  IN  IF queries = <<>> \/ \A i \in 1..Len(queries) : IsSentinel(queries[i])
        THEN <<original_query>>
        ELSE SelectSeq(queries, NotSentinel)

\* an expand that cuts the variants to the requested count
ExpandQueryMultipleEnforcesCount(kind, original_query, num_queries, svc) ==
  LET r == LLMCall(kind, svc)
  IN  IF r.raises THEN <<original_query>>
      ELSE Take(ParseQueries(original_query, r.text), num_queries)

\* an expand whose failure path hands the apology text on as a variant
ExpandQueryMultipleSurfacesApology(kind, original_query, num_queries, svc) ==
  LET r == LLMCall(kind, svc)
  IN  IF r.raises THEN <<SorryMessage>>
      ELSE ParseQueries(original_query, r.text)

\* QueryRewriter.expand_query_multiple
ExpandQueryMultiple(kind, original_query, num_queries, svc) ==
  LET r == LLMCall(kind, svc)
  IN  IF r.raises THEN <<original_query>>
      ELSE ParseQueries(original_query, r.text)

\* QueryRewriter.rewrite_query: the stripped text, or the original query when
\* the call fails or the text is empty or a sentinel
RewriteQuery(kind, original_query, svc) ==
  LET r == LLMCall(kind, svc)
  IN  IF r.raises THEN original_query
      ELSE IF Strip(r.text) = <<>> \/ Lower(Strip(r.text)) \in {StrNone, StrNull}
        THEN original_query
      ELSE Strip(r.text)

\* ------------------------------------------------------------ VectorIndex
\* A Qdrant point id is an unsigned integer or a UUID string.  The points of
\* the collection are named 0..MaxId: the point named n has the integer n as
\* its id when n <= MaxIntegerId, and the UUID string UuidOf(n) otherwise.

\* point.id is an int
IntegerId(id) == id <= MaxIntegerId

\* point.id of a point whose id is a string: the number of the point, in
\* decimal, as the last group of a UUID
UuidOf(id) ==
  <<"0", "0", "0", "0", "0", "0", "0", "0", "-", "0", "0", "0", "0", "-", "0",
    "0", "0", "0", "-", "0", "0", "0", "0", "-">>
    \o [k \in 1..(12 - Len(Str(id))) |-> "0"] \o Str(id)

\* Payload stored with a passage (immutable; a function of the id).
ContentOf(id) == [i \in 1..id |-> IF i % 2 = 1 THEN "x" ELSE "y"]

BookOf(id) == IF id % 2 = 0 THEN <<"A">> ELSE <<"B">>

ChapterOf(id) == <<"1">>

\* A point returned by client.query_points: [id, score]; the answer of one
\* query is  [raises |-> TRUE]  or  [raises |-> FALSE, points |-> seq].

\* VectorRetriever.hybrid_search: convert the points, [] on any exception
HybridSearchPlaceholder(query, limit, idx) ==
  IF idx.raises
    THEN <<[content |-> <<>>, book_name |-> <<>>, chapter |-> <<>>, score |-> 0, id |-> 1]>>
  ELSE [i \in 1..Len(idx.points) |->
          [content |-> ContentOf(idx.points[i].id),
           book_name |-> BookOf(idx.points[i].id),
           chapter |-> ChapterOf(idx.points[i].id),
           score |-> idx.points[i].score,
           id |-> idx.points[i].id]]

HybridSearch(query, limit, idx) ==
  IF idx.raises THEN <<>>
  ELSE [i \in 1..Len(idx.points) |->
          [content |-> ContentOf(idx.points[i].id),
           book_name |-> BookOf(idx.points[i].id),
           chapter |-> ChapterOf(idx.points[i].id),
           score |-> idx.points[i].score,
           id |-> idx.points[i].id]]

\* ---------------------------------------------------------------- Reranker
\* list.sort(key=..., reverse=True) on <<key, item>> pairs: descending,
\* equal keys keep their order.
\* an insertion that puts x before the items of equal key
RECURSIVE InsertDescUnstable(_, _)
InsertDescUnstable(sorted, x) ==
  IF sorted = <<>> THEN <<x>>
  ELSE IF Head(sorted)[1] > x[1]
    THEN <<Head(sorted)>> \o InsertDescUnstable(Tail(sorted), x)
  ELSE <<x>> \o sorted

RECURSIVE InsertDesc(_, _)
InsertDesc(sorted, x) ==
  IF sorted = <<>> THEN <<x>>
  ELSE IF Head(sorted)[1] >= x[1] THEN <<Head(sorted)>> \o InsertDesc(Tail(sorted), x)
  ELSE <<x>> \o sorted

SortDescUnsorted(pairs) == pairs

RECURSIVE SortDesc(_)
SortDesc(pairs) ==
  IF pairs = <<>> THEN <<>>
  ELSE InsertDesc(SortDesc(SubSeq(pairs, 1, Len(pairs) - 1)), pairs[Len(pairs)])

\* The scoring backend's answer to one rerank call:
\*   [raises |-> TRUE]  or  [raises |-> FALSE, scores |-> seq of Int]

\* The caller's list after a rerank call.
\* a rerank that writes the scores into the caller's records and sorts the
\* caller's list
DocumentsMutatedInPlace(documents, be) ==
  IF documents = <<>> \/ be.raises THEN documents
  ELSE LET n == Min(Len(documents), Len(be.scores))
           scored == [i \in 1..n |->
                        <<be.scores[i],
                          [content |-> documents[i].content,
                           book_name |-> documents[i].book_name,
                           chapter |-> documents[i].chapter,
                           score |-> documents[i].score,
                           id |-> documents[i].id,
                           rerank_score |-> be.scores[i],
                           original_score |-> documents[i].score]>>]
           sorted == SortDesc(scored)
       IN  [i \in 1..Len(sorted) |-> sorted[i][2]] \o SubSeq(documents, n + 1, Len(documents))

\* reranker.py 47-59: the scores go to doc.copy(), the sort and the slice
\* work on the new list scored_docs; the caller's list is as it was
DocumentsAfterRerank(documents, be) == documents

\* a rerank whose pairing fails when the lengths differ (a strict zip)
RerankStrictZip(query, documents, top_k, be) ==
  IF documents = <<>> THEN <<>>
  ELSE IF be.raises \/ Len(be.scores) # Len(documents) THEN Take(documents, top_k)
  ELSE LET n == Min(Len(documents), Len(be.scores))
           scored == [i \in 1..n |->
                        <<be.scores[i],
                          [content |-> documents[i].content,
                           book_name |-> documents[i].book_name,
                           chapter |-> documents[i].chapter,
                           score |-> documents[i].score,
                           id |-> documents[i].id,
                           rerank_score |-> be.scores[i],
                           original_score |-> documents[i].score]>>]
           sorted == Take(SortDesc(scored), top_k)
       IN  [i \in 1..Len(sorted) |-> sorted[i][2]]

\* a rerank that returns every scored document
RerankUntruncated(query, documents, top_k, be) ==
  IF documents = <<>> THEN <<>>
  ELSE IF be.raises THEN Take(documents, top_k)
  ELSE LET n == Min(Len(documents), Len(be.scores))
           scored == [i \in 1..n |->
                        <<be.scores[i],
                          [content |-> documents[i].content,
                           book_name |-> documents[i].book_name,
                           chapter |-> documents[i].chapter,
                           score |-> documents[i].score,
                           id |-> documents[i].id,
                           rerank_score |-> be.scores[i],
                           original_score |-> documents[i].score]>>]
           sorted == SortDesc(scored)
       IN  [i \in 1..Len(sorted) |-> sorted[i][2]]

Rerank(query, documents, top_k, be) ==
  IF documents = <<>> THEN <<>>
  ELSE IF be.raises THEN Take(documents, top_k)
  ELSE LET n == Min(Len(documents), Len(be.scores))
           scored == [i \in 1..n |->
                        <<be.scores[i],
                          [content |-> documents[i].content,
                           book_name |-> documents[i].book_name,
                           chapter |-> documents[i].chapter,
                           score |-> documents[i].score,
                           id |-> documents[i].id,
                           rerank_score |-> be.scores[i],
                           original_score |-> documents[i].score]>>]
           sorted == Take(SortDesc(scored), top_k)
       IN  [i \in 1..Len(sorted) |-> sorted[i][2]]

\* What the reranker does during one hybrid_search_with_rerank call:
\*   [init_raises |-> TRUE]                 DocumentReranker() raises
\*   [init_raises |-> FALSE, be |-> answer] the model loads; be is the backend
\* VectorRetriever.hybrid_search_with_rerank
HybridSearchWithRerank(query, limit, use_rerank, idx, rr) ==
  LET results == HybridSearch(query, limit * 2, idx)
  IN  IF use_rerank /\ results # <<>>
        THEN IF rr.init_raises THEN Take(results, limit)
             ELSE Rerank(query, results, limit, rr.be)
        ELSE Take(results, limit)

\* Is the scoring backend (TextCrossEncoder.rerank) invoked in that call?
BackendInvoked(query, limit, use_rerank, idx, rr) ==
  /\ use_rerank
  /\ HybridSearch(query, limit * 2, idx) # <<>>
  /\ ~rr.init_raises

\* llm is "none" when no interface is passed, else the kind of interface.
\* The query that is searched, and what the call returns.
HybridSearchWithQueryRewriteRequiresLLM(llm, query, limit, use_rerank, svc, idx, rr) ==
  IF llm = "none" THEN [raises |-> TRUE]
  ELSE LET rewritten_query == RewriteQuery(llm, query, svc)
       IN  [raises |-> FALSE,
            query |-> rewritten_query,
            results |-> HybridSearchWithRerank(rewritten_query, limit, use_rerank, idx, rr)]

\* VectorRetriever.hybrid_search_with_query_rewrite.  rewrite_query and
\* hybrid_search_with_rerank catch their own exceptions, so the except
\* branch (vector_retriever.py 257-261) is never entered.
HybridSearchWithQueryRewrite(llm, query, limit, use_rerank, svc, idx, rr) ==
  IF llm = "none"
    THEN [raises |-> FALSE,
          query |-> query,
          results |-> HybridSearchWithRerank(query, limit, use_rerank, idx, rr)]
  ELSE LET rewritten_query == RewriteQuery(llm, query, svc)
       IN  [raises |-> FALSE,
            query |-> rewritten_query,
            results |-> HybridSearchWithRerank(rewritten_query, limit, use_rerank, idx, rr)]

\* ------------------------------------------------------------ orchestrator
\* Python truthiness of a point id: the integer 0 is falsy, every other
\* integer and every UUID string is truthy
Truthy(id) == ~(IntegerId(id) /\ id = 0)

\* api.py 247-253: first occurrence of each truthy id, in insertion order
DedupKeepAll(all, seen) == all

\* map[chunk_id] = chunk without the membership test: the last occurrence wins
RECURSIVE DedupLastWins(_, _)
DedupLastWins(all, seen) ==
  IF all = <<>> THEN <<>>
  ELSE IF Truthy(Head(all).id)
          /\ \A i \in 1..Len(Tail(all)) : Tail(all)[i].id # Head(all).id
    THEN <<Head(all)>> \o DedupLastWins(Tail(all), seen)
  ELSE DedupLastWins(Tail(all), seen)

RECURSIVE Dedup(_, _)
Dedup(all, seen) ==
  IF all = <<>> THEN <<>>
  ELSE IF Truthy(Head(all).id) /\ Head(all).id \notin seen
    THEN <<Head(all)>> \o Dedup(Tail(all), seen \cup {Head(all).id})
  ELSE Dedup(Tail(all), seen)

\* x.get('rerank_score', 0)
RerankKey(x) == IF "rerank_score" \in DOMAIN x THEN x.rerank_score ELSE 0

\* api.py 257: unique_retrieval_context.sort(key=..., reverse=True)
SortByRerank(unique) ==
  LET sorted == SortDesc([i \in 1..Len(unique) |-> <<RerankKey(unique[i]), unique[i]>>])
  IN  [i \in 1..Len(unique) |-> sorted[i][2]]

\* content[:200] + ("..." if len(content) > 200 else "")
TextPreviewOffByOne(content) ==
  Take(content, PreviewBudget)
    \o (IF Len(content) >= PreviewBudget THEN <<".", ".", ".">> ELSE <<>>)

TextPreview(content) ==
  Take(content, PreviewBudget)
    \o (IF Len(content) > PreviewBudget THEN <<".", ".", ".">> ELSE <<>>)

\* chunk["rerank_score"] / chunk["original_score"] raise KeyError when absent
HasScores(chunk) == {"rerank_score", "original_score"} \subseteq DOMAIN chunk

\* an assembly that reads the first chunk before it looks at the list
AssembleNeedsChunk(chunks) ==
  IF chunks = <<>> \/ \E i \in 1..Len(chunks) : ~HasScores(chunks[i])
    THEN [raises |-> TRUE]
  ELSE [raises |-> FALSE,
        bundle |-> [i \in 1..Len(chunks) |->
          [chunk_id |-> chunks[i].id,
           content |-> chunks[i].content,
           source_document |-> <<"book: ">> \o chunks[i].book_name
                                 \o <<" - chapter: ">> \o chunks[i].chapter,
           relevance_score |-> chunks[i].rerank_score,
           original_score |-> chunks[i].original_score,
           text_preview |-> TextPreview(chunks[i].content)]]]

\* original_score read from the wrong key
AssembleSwapped(chunks) ==
  IF \E i \in 1..Len(chunks) : ~HasScores(chunks[i]) THEN [raises |-> TRUE]
  ELSE [raises |-> FALSE,
        bundle |-> [i \in 1..Len(chunks) |->
          [chunk_id |-> chunks[i].id,
           content |-> chunks[i].content,
           source_document |-> <<"book: ">> \o chunks[i].book_name
                                 \o <<" - chapter: ">> \o chunks[i].chapter,
           relevance_score |-> chunks[i].rerank_score,
           original_score |-> chunks[i].rerank_score,
           text_preview |-> TextPreview(chunks[i].content)]]]

\* api.py 265-275 and 310-320: the context list, or KeyError
Assemble(chunks) ==
  IF \E i \in 1..Len(chunks) : ~HasScores(chunks[i]) THEN [raises |-> TRUE]
  ELSE [raises |-> FALSE,
        bundle |-> [i \in 1..Len(chunks) |->
          [chunk_id |-> chunks[i].id,
           content |-> chunks[i].content,
           source_document |-> <<"book: ">> \o chunks[i].book_name
                                 \o <<" - chapter: ">> \o chunks[i].chapter,
           relevance_score |-> chunks[i].rerank_score,
           original_score |-> chunks[i].original_score,
           text_preview |-> TextPreview(chunks[i].content)]]]

FuseUntruncated(all) == SortByRerank(Dedup(all, {}))

\* api.py 246-260: dedup, sort, truncate
Fuse(all) == Take(SortByRerank(Dedup(all, {})), FinalTopK)

\* a list that puts the newest variant's chunks in front
ExtendFront(all, retrieval_context) == retrieval_context \o all

\* api.py 244: all_retrieval_context.extend(retrieval_context)
Extend(all, retrieval_context) == all \o retrieval_context

\* ------------------------------------------------------------------ inputs
UserQueries == {<<"q">>}

\* lines the generation service may produce in a pipeline request
PipelineLines == {<<"a", " ">>, <<"N", "o", "n", "e">>}

SeqsUpTo(S, n) == UNION {[1..k -> S] : k \in 0..n}

\* what the service behind the rewriter's llm_interface does
PipelineLLM ==
  {[raises |-> TRUE]} \cup
  {[raises |-> FALSE, text |-> JoinLines(ls)] : ls \in SeqsUpTo(PipelineLines, MaxLines)}

\* point ids; 0 is the one a Python truth test takes for missing
Ids == 0..MaxId

\* A ranked answer of the index: k passages with consecutive ids from s,
\* scores non-increasing: k, k-1, .., 1 ("strict") or all 1 ("flat").  Ids are
\* distinct, as query_points returns points.
Run(s, k, strict) ==
  [i \in 1..k |-> [id |-> s + i - 1, score |-> IF strict THEN k - i + 1 ELSE 1]]

HitLists(maxlen) ==
  {Run(s, k, strict) : s \in Ids, k \in 0..maxlen, strict \in BOOLEAN}

IndexAnswers(maxlen) ==
  {[raises |-> TRUE]} \cup
  {[raises |-> FALSE, points |-> h] :
     h \in {x \in HitLists(maxlen) : \A i \in 1..Len(x) : x[i].id \in Ids}}

\* Answers of the scoring backend for n = Len(docs) documents: by passage id,
\* by negated position (keeps the order, negative logits), all equal, or one
\* score short.
ScoreLists(docs) ==
  LET n == Len(docs)
  IN  {[i \in 1..n |-> docs[i].id],
       [i \in 1..n |-> 0 - i],
       [i \in 1..n |-> 0],
       [i \in 1..(n - 1) |-> docs[i].id]}

RerankerOutcomes(docs) ==
  {[init_raises |-> TRUE]} \cup
  {[init_raises |-> FALSE, be |-> [raises |-> TRUE]]} \cup
  {[init_raises |-> FALSE, be |-> [raises |-> FALSE, scores |-> sc]] :
     sc \in ScoreLists(docs)}

\* what the completion service does when generate_response calls it
GenerationOutcomes ==
  {[raises |-> TRUE], [raises |-> FALSE, text |-> <<"A", "U+00A0", " ">>]}

\* what detect_language returns: langdetect's answer, "en" when it fails
Languages == {<<"e", "n">>, <<"e", "s">>}

\* ------------------------------------------------------------------- state
VARIABLES
  pc,                    \* position of the request in query_rag_endpoint
  user_query,            \* input_data.user_query
  use_query_rewrite,     \* input_data.use_query_rewrite
  rewriter_llm,          \* kind of query_rewriter.llm_interface
  llm_out,               \* what the expansion service did, <<>> before
  expanded_queries,      \* api.py:232
  searches,              \* per search call: query, index answer, results, list returned
  reranks,               \* per search call: what the reranker did
  all_retrieval_context, \* api.py:237
  final_retrieval_context, \* api.py:260 / api.py:304
  bundle,                \* context_retrieval_context_for_llm
  output,                \* RAGOutput, <<>> before
  calls,                 \* calls to collaborators, in order
  waiting,               \* the locals of a second request, while it is not running
  running,               \* which of the two requests the variables above belong to
  client,                \* llm_interface.client is set (an API key was found)
  pydantic               \* major version of the installed pydantic (not pinned)

vars == <<pc, user_query, use_query_rewrite, rewriter_llm, llm_out,
          expanded_queries, searches, reranks, all_retrieval_context,
          final_retrieval_context, bundle, output, calls, waiting, running,
          client, pydantic>>

\* the locals of a request that has not started
IdleFrame ==
  [pc |-> "idle", user_query |-> <<>>, use_query_rewrite |-> FALSE,
   rewriter_llm |-> "LLMInterface", llm_out |-> <<>>, expanded_queries |-> <<>>,
   searches |-> <<>>, reranks |-> <<>>, all_retrieval_context |-> <<>>,
   final_retrieval_context |-> <<>>, bundle |-> <<>>, output |-> <<>>,
   calls |-> <<>>]

\* the locals of the running request
Frame ==
  [pc |-> pc, user_query |-> user_query, use_query_rewrite |-> use_query_rewrite,
   rewriter_llm |-> rewriter_llm, llm_out |-> llm_out,
   expanded_queries |-> expanded_queries, searches |-> searches,
   reranks |-> reranks, all_retrieval_context |-> all_retrieval_context,
   final_retrieval_context |-> final_retrieval_context, bundle |-> bundle,
   output |-> output, calls |-> calls]

Init ==
  /\ pc = "idle"
  /\ user_query = <<>>
  /\ use_query_rewrite = FALSE
  /\ rewriter_llm = "LLMInterface"
  /\ llm_out = <<>>
  /\ expanded_queries = <<>>
  /\ searches = <<>>
  /\ reranks = <<>>
  /\ all_retrieval_context = <<>>
  /\ final_retrieval_context = <<>>
  /\ bundle = <<>>
  /\ output = <<>>
  /\ calls = <<>>
  /\ waiting = IdleFrame
  /\ running = 1
  /\ client \in BOOLEAN
  /\ pydantic \in {1, 2}

\* a dispatch that takes the rewriter pipeline whatever the flag
QueryRagAlwaysExpands(q, flag, kind) ==
  /\ pc = "idle"
  /\ user_query' = q
  /\ use_query_rewrite' = flag
  /\ rewriter_llm' = kind
  /\ pc' = "expand"
  /\ UNCHANGED <<llm_out, expanded_queries, searches, reranks,
                 all_retrieval_context, final_retrieval_context, bundle,
                 output, calls>>
  /\ UNCHANGED <<waiting, running, client, pydantic>>

\* query_rag_endpoint, api.py 527-543: dispatch on use_query_rewrite
QueryRag(q, flag, kind) ==
  /\ pc = "idle"
  /\ user_query' = q
  /\ use_query_rewrite' = flag
  /\ rewriter_llm' = kind
  /\ pc' = IF flag THEN "expand" ELSE "direct"
  /\ UNCHANGED <<llm_out, expanded_queries, searches, reranks,
                 all_retrieval_context, final_retrieval_context, bundle,
                 output, calls>>
  /\ UNCHANGED <<waiting, running, client, pydantic>>

\* execute_rag_pipeline_rewriter, api.py 231-232
Expand(svc) ==
  /\ pc = "expand"
  /\ expanded_queries' = ExpandQueryMultiple(rewriter_llm, user_query, NumQueries, svc)
  /\ llm_out' = IF CallBinds(rewriter_llm) THEN svc ELSE [raises |-> TRUE]
  /\ calls' = Append(calls, [op |-> "expand", query |-> user_query, n |-> NumQueries])
  /\ pc' = "search"
  /\ UNCHANGED <<user_query, use_query_rewrite, rewriter_llm, searches, reranks,
                 all_retrieval_context, final_retrieval_context, bundle, output>>
  /\ UNCHANGED <<waiting, running, client, pydantic>>

\* scoring before searching
SearchCallsRerankFirst(query, idx, rr) ==
  (IF BackendInvoked(query, Limit, TRUE, idx, rr)
     THEN <<[op |-> "rerank", query |-> query, n |-> Limit]>> ELSE <<>>) \o
  <<[op |-> "search", query |-> query, n |-> Limit * 2]>>

\* the calls one hybrid_search_with_rerank makes
SearchCalls(query, idx, rr) ==
  <<[op |-> "search", query |-> query, n |-> Limit * 2]>> \o
  (IF BackendInvoked(query, Limit, TRUE, idx, rr)
     THEN <<[op |-> "rerank", query |-> query, n |-> Limit]>> ELSE <<>>)

\* what the reranker did in one hybrid_search_with_rerank call
RerankLog(query, idx, rr) ==
  IF HybridSearch(query, Limit * 2, idx) = <<>> THEN "skipped"
  ELSE IF rr.init_raises THEN "init_raises"
  ELSE IF rr.be.raises THEN "raises"
  ELSE "ok"

\* the scores the backend gave in one hybrid_search_with_rerank call, <<>>
\* when it gave none
BackendScores(query, idx, rr) ==
  IF RerankLog(query, idx, rr) = "ok" THEN rr.be.scores ELSE <<>>

\* the list `results` of hybrid_search_with_rerank when the call returns
ResultsAfter(query, idx, rr) ==
  IF RerankLog(query, idx, rr) \in {"raises", "ok"}
    THEN DocumentsAfterRerank(HybridSearch(query, Limit * 2, idx), rr.be)
    ELSE HybridSearch(query, Limit * 2, idx)

\* execute_rag_pipeline_rewriter, api.py 238-244: one iteration of the loop
SearchVariant(idx, rr) ==
  /\ pc = "search"
  /\ Len(searches) < Len(expanded_queries)
  /\ LET query == expanded_queries[Len(searches) + 1]
         retrieval_context == HybridSearchWithRerank(query, Limit, TRUE, idx, rr)
     IN  /\ all_retrieval_context' = Extend(all_retrieval_context, retrieval_context)
         /\ searches' = Append(searches,
              [query |-> query, index |-> idx,
               results |-> HybridSearch(query, Limit * 2, idx),
               after |-> ResultsAfter(query, idx, rr),
               scores |-> BackendScores(query, idx, rr), top_k |-> Limit,
               use_rerank |-> TRUE,
               returned |-> retrieval_context])
         /\ reranks' = Append(reranks, RerankLog(query, idx, rr))
         /\ calls' = calls \o SearchCalls(query, idx, rr)
  /\ pc' = IF Len(searches) + 1 = Len(expanded_queries) THEN "fuse" ELSE "search"
  /\ UNCHANGED <<user_query, use_query_rewrite, rewriter_llm, llm_out,
                 expanded_queries, final_retrieval_context, bundle, output>>
  /\ UNCHANGED <<waiting, running, client, pydantic>>

\* execute_rag_pipeline_rewriter, api.py 246-275; a KeyError propagates to
\* query_rag_endpoint, which answers HTTP 500 (api.py 544-549)
FuseAssemble ==
  /\ pc = "fuse"
  /\ final_retrieval_context' = Fuse(all_retrieval_context)
  /\ LET r == Assemble(Fuse(all_retrieval_context))
     IN  IF r.raises
           THEN /\ pc' = "error"
                /\ output' = [status |-> 500]
                /\ UNCHANGED bundle
           ELSE /\ pc' = "generate"
                /\ bundle' = r.bundle
                /\ UNCHANGED output
  /\ UNCHANGED <<user_query, use_query_rewrite, rewriter_llm, llm_out,
                 expanded_queries, searches, reranks, all_retrieval_context, calls>>
  /\ UNCHANGED <<waiting, running, client, pydantic>>

\* execute_rag_pipeline, api.py 304-308
DirectSearch(idx, rr) ==
  /\ pc = "direct"
  /\ LET retrieved == HybridSearchWithRerank(user_query, Limit, TRUE, idx, rr)
     IN  /\ final_retrieval_context' = retrieved
         /\ searches' = Append(searches,
              [query |-> user_query, index |-> idx,
               results |-> HybridSearch(user_query, Limit * 2, idx),
               after |-> ResultsAfter(user_query, idx, rr),
               scores |-> BackendScores(user_query, idx, rr), top_k |-> Limit,
               use_rerank |-> TRUE,
               returned |-> retrieved])
         /\ reranks' = Append(reranks, RerankLog(user_query, idx, rr))
         /\ calls' = calls \o SearchCalls(user_query, idx, rr)
  /\ pc' = "assemble"
  /\ UNCHANGED <<user_query, use_query_rewrite, rewriter_llm, llm_out,
                 expanded_queries, all_retrieval_context, bundle, output>>
  /\ UNCHANGED <<waiting, running, client, pydantic>>

\* execute_rag_pipeline, api.py 310-320
AssembleDirect ==
  /\ pc = "assemble"
  /\ LET r == Assemble(final_retrieval_context)
     IN  IF r.raises
           THEN /\ pc' = "error"
                /\ output' = [status |-> 500]
                /\ UNCHANGED bundle
           ELSE /\ pc' = "generate"
                /\ bundle' = r.bundle
                /\ UNCHANGED output
  /\ UNCHANGED <<user_query, use_query_rewrite, rewriter_llm, llm_out,
                 expanded_queries, searches, reranks, all_retrieval_context,
                 final_retrieval_context, calls>>
  /\ UNCHANGED <<waiting, running, client, pydantic>>

\* LLMInterface._simulate_response: the answer given without an API client.
\* lang is what detect_language returned for the query.
SimulateResponse(query, context_retrieval_context, lang) ==
  <<"[", "S", "i", "m", "u", "l", "a", "d", "o", "]", " ", "P", "a", "r",
    "a", " ", "l", "a", " ", "p", "r", "e", "g", "u", "n", "t", "a", ":",
    " ", "'">>
    \o Take(query, SimulatedQueryChars) \o
  <<".", ".", ".", "'", " ", "(", "u", "s", "a", "n", "d", "o", " ">>
    \o Str(Len(context_retrieval_context)) \o
  <<" ", "r", "e", "t", "r", "i", "e", "v", "a", "l", "_", "c", "o", "n",
    "t", "e", "x", "t", ")", ".", " ", "I", "d", "i", "o", "m", "a", " ",
    "d", "e", "t", "e", "c", "t", "a", "d", "o", ":", " ">>
    \o lang

\* LLMInterface.generate_response called with the right keywords
\* (api.py 278-283, 323-328).  Without a client the simulated answer, and the
\* completion service is not called; with one, the stripped completion, or
\* the apology from the except branch when the service call fails.
GenerateResponse(has_client, query, context_retrieval_context, lang, gen) ==
  IF ~has_client THEN SimulateResponse(query, context_retrieval_context, lang)
  ELSE IF gen.raises THEN SorryMessage
  ELSE Strip(gen.text)

\* The field chunk_id: str of RAGChunkMetadata (api.py 118) given a point id.
\* A string is kept.  An integer is not a string: pydantic 1 coerces it to
\* str(id), pydantic 2 raises ValidationError.
ChunkIdField(version, id) ==
  IF ~IntegerId(id) THEN [raises |-> FALSE, value |-> UuidOf(id)]
  ELSE IF version = 1 THEN [raises |-> FALSE, value |-> Str(id)]
  ELSE [raises |-> TRUE]

\* RAGOutput(query_used=, actual_output=, retrieval_context_used=, llm_model=)
\* of api.py 289-294 and 334-339: the validated model, or ValidationError
RAGOutput(version, query_used, actual_output, retrieval_context_used, llm_model) ==
  IF \E i \in 1..Len(retrieval_context_used) :
       ChunkIdField(version, retrieval_context_used[i].chunk_id).raises
    THEN [raises |-> TRUE]
    ELSE [raises |-> FALSE,
          value |->
            [status |-> 200,
             query_used |-> query_used,
             actual_output |-> actual_output,
             retrieval_context_used |->
               [i \in 1..Len(retrieval_context_used) |->
                  [retrieval_context_used[i] EXCEPT
                     !.chunk_id = ChunkIdField(version, @).value]],
             llm_model |-> llm_model]]

\* a generation step that asks with the first search query
GenerateWithVariant(lang, gen) ==
  /\ pc = "generate"
  /\ calls' = Append(calls, [op |-> "generate", query |-> searches[1].query,
                             n |-> Len(bundle), context |-> bundle,
                             completion |-> client])
  /\ LET response ==
           GenerateResponse(client, searches[1].query, bundle, lang, gen)
         out == RAGOutput(pydantic, searches[1].query, response, bundle,
                          "deepseek-chat")
     IN  IF out.raises
           THEN /\ pc' = "error"
                /\ output' = [status |-> 500]
           ELSE /\ pc' = "done"
                /\ output' = out.value
  /\ UNCHANGED <<user_query, use_query_rewrite, rewriter_llm, llm_out,
                 expanded_queries, searches, reranks, all_retrieval_context,
                 final_retrieval_context, bundle>>
  /\ UNCHANGED <<waiting, running, client, pydantic>>

\* api.py 277-294 and 323-339; a ValidationError of RAGOutput is caught by
\* query_rag_endpoint (api.py 544-549): HTTP 500
Generate(lang, gen) ==
  /\ pc = "generate"
  /\ calls' = Append(calls, [op |-> "generate", query |-> user_query,
                             n |-> Len(bundle), context |-> bundle,
                             completion |-> client])
  /\ LET response == GenerateResponse(client, user_query, bundle, lang, gen)
         out == RAGOutput(pydantic, user_query, response, bundle, "deepseek-chat")
     IN  IF out.raises
           THEN /\ pc' = "error"
                /\ output' = [status |-> 500]
           ELSE /\ pc' = "done"
                /\ output' = out.value
  /\ UNCHANGED <<user_query, use_query_rewrite, rewriter_llm, llm_out,
                 expanded_queries, searches, reranks, all_retrieval_context,
                 final_retrieval_context, bundle>>
  /\ UNCHANGED <<waiting, running, client, pydantic>>

Next ==
  \/ \E q \in UserQueries, flag \in BOOLEAN, kind \in LLMKinds : QueryRag(q, flag, kind)
  \/ \E svc \in PipelineLLM : Expand(svc)
  \/ \E idx \in IndexAnswers(Min(Limit * 2, MaxVariantHits)) :
       \E rr \in RerankerOutcomes(HybridSearch(<<>>, Limit * 2, idx)) : SearchVariant(idx, rr)
  \/ FuseAssemble
  \/ \E idx \in IndexAnswers(Limit * 2) :
       \E rr \in RerankerOutcomes(HybridSearch(<<>>, Limit * 2, idx)) : DirectSearch(idx, rr)
  \/ AssembleDirect
  \/ \E lang \in Languages, gen \in GenerationOutcomes : Generate(lang, gen)

Spec == Init /\ [][Next]_vars

\* --------------------------------------------- expand_query_multiple alone
UserQueriesExpand == {<<"q">>, <<" ", "q">>, <<"n", "o", "n", "e">>}

ExpandLines ==
  {<<>>, <<" ">>, <<"n", "o", "n", "e">>, <<" ", "N", "o", "n", "e", "\r">>,
   <<"N", "U", "L", "L">>, <<"a">>, <<" ", "a", " ", "b", " ">>,
   <<"n", "o", "n", "e", "a">>, <<"\f">>, <<"U+00A0", "n", "u", "l", "l", "U+2003">>}

ExpandLLM ==
  {[raises |-> TRUE]} \cup
  {[raises |-> FALSE, text |-> JoinLines(ls)] : ls \in SeqsUpTo(ExpandLines, MaxExpandLines)}

InitExpand ==
  /\ pc = "expand"
  /\ user_query \in UserQueriesExpand
  /\ use_query_rewrite = TRUE
  /\ rewriter_llm \in LLMKinds
  /\ llm_out = <<>>
  /\ expanded_queries = <<>>
  /\ searches = <<>>
  /\ reranks = <<>>
  /\ all_retrieval_context = <<>>
  /\ final_retrieval_context = <<>>
  /\ bundle = <<>>
  /\ output = <<>>
  /\ calls = <<>>
  /\ waiting = IdleFrame
  /\ running = 1
  /\ client \in BOOLEAN
  /\ pydantic \in {1, 2}

NextExpand == \E svc \in ExpandLLM : Expand(svc)

SpecExpand == InitExpand /\ [][NextExpand]_vars

\* ------------------------------------------------ previews of long passages
\* The index holds passages of 0..MaxContentLen characters and answers with
\* one of them; the reranker loads and scores it.
PreviewAnswers ==
  {[raises |-> FALSE, points |-> <<[id |-> n, score |-> 1]>>] : n \in 0..MaxContentLen}

PreviewReranker(idx) ==
  [init_raises |-> FALSE,
   be |-> [raises |-> FALSE, scores |-> [i \in 1..Len(idx.points) |-> idx.points[i].id]]]

NextPreview ==
  \/ \E q \in UserQueries, flag \in BOOLEAN : QueryRag(q, flag, "LLMInterface")
  \/ Expand([raises |-> TRUE])
  \/ \E idx \in PreviewAnswers : SearchVariant(idx, PreviewReranker(idx))
  \/ FuseAssemble
  \/ \E idx \in PreviewAnswers : DirectSearch(idx, PreviewReranker(idx))
  \/ AssembleDirect
  \/ \E lang \in Languages, gen \in GenerationOutcomes : Generate(lang, gen)

SpecPreview == Init /\ [][NextPreview]_vars

\* ------------------------------------------------- two requests in flight
\* Each call of query_rag_endpoint has its own frame of locals, and the
\* handles vector_store, llm_interface and query_rewriter are only read.
\* Switch hands the processor to the other request between two steps.

\* a module-level all_retrieval_context, one list for every request
SwitchSharedList ==
  /\ waiting' = Frame
  /\ running' = 3 - running
  /\ pc' = waiting.pc
  /\ user_query' = waiting.user_query
  /\ use_query_rewrite' = waiting.use_query_rewrite
  /\ rewriter_llm' = waiting.rewriter_llm
  /\ llm_out' = waiting.llm_out
  /\ expanded_queries' = waiting.expanded_queries
  /\ searches' = waiting.searches
  /\ reranks' = waiting.reranks
  /\ all_retrieval_context' = all_retrieval_context
  /\ final_retrieval_context' = waiting.final_retrieval_context
  /\ bundle' = waiting.bundle
  /\ output' = waiting.output
  /\ calls' = waiting.calls
  /\ UNCHANGED <<client, pydantic>>

Switch ==
  /\ waiting' = Frame
  /\ running' = 3 - running
  /\ pc' = waiting.pc
  /\ user_query' = waiting.user_query
  /\ use_query_rewrite' = waiting.use_query_rewrite
  /\ rewriter_llm' = waiting.rewriter_llm
  /\ llm_out' = waiting.llm_out
  /\ expanded_queries' = waiting.expanded_queries
  /\ searches' = waiting.searches
  /\ reranks' = waiting.reranks
  /\ all_retrieval_context' = waiting.all_retrieval_context
  /\ final_retrieval_context' = waiting.final_retrieval_context
  /\ bundle' = waiting.bundle
  /\ output' = waiting.output
  /\ calls' = waiting.calls
  /\ UNCHANGED <<client, pydantic>>

TwoQueries == {<<"q">>, <<"r">>}

TwoLLM == {[raises |-> TRUE], [raises |-> FALSE, text |-> JoinLines(<<<<"a", " ">>, <<"a">>>>)]}

TwoAnswers ==
  {[raises |-> TRUE]} \cup
  {[raises |-> FALSE, points |-> Run(s, MaxTwoHits, TRUE)] : s \in {1, 2}}

TwoRerankers(docs) ==
  {[init_raises |-> TRUE],
   [init_raises |-> FALSE,
    be |-> [raises |-> FALSE, scores |-> [i \in 1..Len(docs) |-> docs[i].id]]]}

NextTwo ==
  \/ \E q \in TwoQueries, flag \in BOOLEAN : QueryRag(q, flag, "duck")
  \/ \E svc \in TwoLLM : Expand(svc)
  \/ \E idx \in TwoAnswers :
       \E rr \in TwoRerankers(HybridSearch(<<>>, Limit * 2, idx)) : SearchVariant(idx, rr)
  \/ FuseAssemble
  \/ \E idx \in TwoAnswers :
       \E rr \in TwoRerankers(HybridSearch(<<>>, Limit * 2, idx)) : DirectSearch(idx, rr)
  \/ AssembleDirect
  \/ \E lang \in Languages, gen \in GenerationOutcomes : Generate(lang, gen)
  \/ Switch

SpecTwo == Init /\ [][NextTwo]_vars

\* ------------------------------------------------------------ rerank alone
\* DocumentReranker.rerank called on its own, with any top_k, and
\* hybrid_search_with_rerank called on its own.
RerankDocuments ==
  {HybridSearch(<<"q">>, Limit * 2, idx) :
     idx \in {a \in IndexAnswers(MaxRerankDocs) : ~a.raises}}

\* backend answers for the documents: those of the pipeline, and one score
\* more than there are documents
RerankBackends(docs) ==
  {[raises |-> TRUE]} \cup
  {[raises |-> FALSE, scores |-> sc] :
     sc \in ScoreLists(docs) \cup {[i \in 1..(Len(docs) + 1) |-> i]}}

\* a rerank that asks the backend before it looks at the documents
RerankInvokesBackendAlways(documents) == TRUE

\* reranker.py 37-45: the backend is called unless the list is empty
RerankInvokesBackend(documents) == documents # <<>>

\* reranker.py 24-67, called from outside the pipeline
RerankAlone(documents, top_k, be) ==
  /\ pc = "rerank"
  /\ searches' = <<[query |-> user_query,
                    index |-> [raises |-> FALSE,
                               points |-> [i \in 1..Len(documents) |->
                                             [id |-> documents[i].id,
                                              score |-> documents[i].score]]],
                    results |-> documents,
                    after |-> DocumentsAfterRerank(documents, be),
                    scores |-> IF RerankInvokesBackend(documents) /\ ~be.raises
                                 THEN be.scores ELSE <<>>,
                    top_k |-> top_k,
                    use_rerank |-> TRUE,
                    returned |-> Rerank(user_query, documents, top_k, be)]>>
  /\ reranks' = <<IF documents = <<>> THEN "skipped"
                  ELSE IF be.raises THEN "raises" ELSE "ok">>
  /\ calls' = IF RerankInvokesBackend(documents)
                THEN <<[op |-> "rerank", query |-> user_query, n |-> top_k]>>
                ELSE <<>>
  /\ pc' = "returned"
  /\ UNCHANGED <<user_query, use_query_rewrite, rewriter_llm, llm_out,
                 expanded_queries, all_retrieval_context,
                 final_retrieval_context, bundle, output, waiting, running,
                 client, pydantic>>

InitRerank ==
  /\ pc \in {"rerank", "direct"}
  /\ user_query = <<"q">>
  /\ use_query_rewrite = FALSE
  /\ rewriter_llm = "LLMInterface"
  /\ llm_out = <<>>
  /\ expanded_queries = <<>>
  /\ searches = <<>>
  /\ reranks = <<>>
  /\ all_retrieval_context = <<>>
  /\ final_retrieval_context = <<>>
  /\ bundle = <<>>
  /\ output = <<>>
  /\ calls = <<>>
  /\ waiting = IdleFrame
  /\ running = 1
  /\ client \in BOOLEAN
  /\ pydantic \in {1, 2}

NextRerank ==
  \/ \E documents \in RerankDocuments, top_k \in 1..MaxTopK :
       \E be \in RerankBackends(documents) : RerankAlone(documents, top_k, be)
  \/ \E idx \in IndexAnswers(Limit * 2) :
       \E rr \in RerankerOutcomes(HybridSearch(<<>>, Limit * 2, idx)) : DirectSearch(idx, rr)

SpecRerank == InitRerank /\ [][NextRerank]_vars

\* ----------------------------------- hybrid_search_with_query_rewrite alone
RewriteTexts ==
  {<<>>, <<" ">>, <<"N", "o", "n", "e">>, <<" ", "a", " ">>,
   <<"N", "U", "L", "L", "\n">>, <<"b">>, <<"\f">>, <<"U+0085", "b", "U+000B">>}

RewriteLLM ==
  {[raises |-> TRUE]} \cup {[raises |-> FALSE, text |-> t] : t \in RewriteTexts}

\* vector_retriever.py 218-261, called from outside the pipeline
SearchWithQueryRewrite(llm, limit, use_rerank, svc, idx, rr) ==
  /\ pc = "rewrite"
  /\ LET r == HybridSearchWithQueryRewrite(llm, user_query, limit, use_rerank, svc, idx, rr)
     IN  IF r.raises
           THEN /\ pc' = "error"
                /\ UNCHANGED <<searches, reranks, calls>>
           ELSE /\ pc' = "returned"
                /\ searches' = <<[query |-> r.query, index |-> idx,
                                  results |-> HybridSearch(r.query, limit * 2, idx),
                                  after |-> HybridSearch(r.query, limit * 2, idx),
                                  scores |-> IF use_rerank
                                               THEN BackendScores(r.query, idx, rr)
                                               ELSE <<>>,
                                  top_k |-> limit,
                                  use_rerank |-> use_rerank,
                                  returned |-> r.results]>>
                /\ reranks' = <<IF use_rerank THEN RerankLog(r.query, idx, rr)
                                ELSE "skipped">>
                /\ calls' =
                     (IF llm = "none" THEN <<>>
                      ELSE <<[op |-> "rewrite", query |-> user_query, n |-> 100]>>)
                     \o <<[op |-> "search", query |-> r.query, n |-> limit * 2]>>
                     \o (IF BackendInvoked(r.query, limit, use_rerank, idx, rr)
                           THEN <<[op |-> "rerank", query |-> r.query, n |-> limit]>>
                           ELSE <<>>)
  /\ rewriter_llm' = llm
  /\ llm_out' = IF llm = "none" THEN <<>>
                ELSE IF CallBinds(llm) THEN svc ELSE [raises |-> TRUE]
  /\ UNCHANGED <<user_query, use_query_rewrite, expanded_queries,
                 all_retrieval_context, final_retrieval_context, bundle,
                 output, waiting, running, client, pydantic>>

InitRewrite ==
  /\ pc = "rewrite"
  /\ user_query = <<"q">>
  /\ use_query_rewrite = FALSE
  /\ rewriter_llm = "none"
  /\ llm_out = <<>>
  /\ expanded_queries = <<>>
  /\ searches = <<>>
  /\ reranks = <<>>
  /\ all_retrieval_context = <<>>
  /\ final_retrieval_context = <<>>
  /\ bundle = <<>>
  /\ output = <<>>
  /\ calls = <<>>
  /\ waiting = IdleFrame
  /\ running = 1
  /\ client \in BOOLEAN
  /\ pydantic \in {1, 2}

NextRewrite ==
  \E llm \in {"none"} \cup LLMKinds, limit \in 1..MaxTopK, use_rerank \in BOOLEAN :
    \E svc \in RewriteLLM, idx \in IndexAnswers(Min(limit * 2, MaxVariantHits)) :
      \E rr \in RerankerOutcomes(HybridSearch(<<>>, limit * 2, idx)) :
        SearchWithQueryRewrite(llm, limit, use_rerank, svc, idx, rr)

SpecRewrite == InitRewrite /\ [][NextRewrite]_vars

\* ------------------------------------------------- fan-out of the searches
\* The rewriter pipeline with generated texts of up to MaxFanOutLines lines
\* and an index that fails or finds one passage.
FanOutLLM ==
  {[raises |-> TRUE]} \cup
  {[raises |-> FALSE, text |-> JoinLines(ls)] :
     ls \in SeqsUpTo(PipelineLines, MaxFanOutLines)}

FanOutAnswers == {[raises |-> TRUE], [raises |-> FALSE, points |-> Run(1, 1, TRUE)]}

NextFanOut ==
  \/ \E q \in UserQueries, kind \in LLMKinds : QueryRag(q, TRUE, kind)
  \/ \E svc \in FanOutLLM : Expand(svc)
  \/ \E idx \in FanOutAnswers : SearchVariant(idx, PreviewReranker(idx))
  \/ FuseAssemble
  \/ \E lang \in Languages, gen \in GenerationOutcomes : Generate(lang, gen)

SpecFanOut == Init /\ [][NextFanOut]_vars

\* ================================================================== claims
\* the context list exists: assembly succeeded
BundleBuilt == pc \in {"generate", "done"}

\* the installed pydantic refuses to build a RAGOutput around the context list
OutputRejected(chunks) == RAGOutput(pydantic, <<>>, <<>>, chunks, "").raises

\* the context list as a RAGOutput built around it carries it
OutputChunks(chunks) ==
  RAGOutput(pydantic, <<>>, <<>>, chunks, "").value.retrieval_context_used

\* the request has ended, with a RAGOutput or with HTTP 500
Ended == pc \in {"done", "error"}

BundleIds == {bundle[i].chunk_id : i \in 1..Len(bundle)}

\* ids in the list one variant's search call returned to the orchestrator
ReturnedIds(v) == {searches[v].returned[i].id : i \in 1..Len(searches[v].returned)}

\* distinct passages found by the searches of the request
FoundIds ==
  UNION {{searches[v].results[i].id : i \in 1..Len(searches[v].results)} :
           v \in 1..Len(searches)}

\* distinct passages in the lists the search calls returned: the fused candidates
FusedIds == UNION {ReturnedIds(v) : v \in 1..Len(searches)}

RerankFailed(v) == reranks[v] \in {"init_raises", "raises"}

\* C1: the chunk ids of a returned context list are pairwise distinct, also
\* when a passage id is in the lists of two or more variants.
C1_UniqueIds ==
  BundleBuilt =>
    \A i, j \in 1..Len(bundle) : i < j => bundle[i].chunk_id # bundle[j].chunk_id

C1_Witness ==
  /\ pc = "done"
  /\ use_query_rewrite
  /\ Len(searches) = 2
  /\ \E id \in ReturnedIds(1) \cap ReturnedIds(2) : id \in BundleIds

\* score of the first occurrence of id in concatenation order: the first
\* variant whose returned list holds it, the first position in that list
FirstSeenScore(id) ==
  LET v == CHOOSE w \in 1..Len(searches) :
             /\ id \in ReturnedIds(w)
             /\ \A u \in 1..(w - 1) : id \notin ReturnedIds(u)
      l == searches[v].returned
      i == CHOOSE k \in 1..Len(l) :
             l[k].id = id /\ \A m \in 1..(k - 1) : l[m].id # id
  IN  l[i].score

\* C2: first-seen-wins: every entry of the context list of an expanded
\* request carries, as original_score, the score of the first occurrence of
\* its id in concatenation order, and the id occurs once.
C2_FirstSeenWins ==
  (BundleBuilt /\ use_query_rewrite) =>
    \A i \in 1..Len(bundle) :
      /\ bundle[i].original_score = FirstSeenScore(bundle[i].chunk_id)
      /\ Cardinality({j \in 1..Len(bundle) : bundle[j].chunk_id = bundle[i].chunk_id}) = 1

C2_Witness ==
  /\ pc = "done"
  /\ Len(searches) = 2
  /\ \E i \in 1..Len(searches[1].returned), j \in 1..Len(searches[2].returned) :
       /\ searches[1].returned[i].id = searches[2].returned[j].id
       /\ searches[1].returned[i].score < searches[2].returned[j].score
       /\ \E k \in 1..Len(bundle) :
            /\ bundle[k].chunk_id = searches[1].returned[i].id
            /\ bundle[k].original_score = searches[1].returned[i].score

\* C3: relevance_score is non-increasing along every returned context list.
C3_ScoreMonotone ==
  BundleBuilt =>
    \A i, j \in 1..Len(bundle) :
      i < j => bundle[i].relevance_score >= bundle[j].relevance_score

C3_Witness ==
  /\ pc = "done"
  /\ Len(bundle) >= 3
  /\ bundle[1].relevance_score > bundle[Len(bundle)].relevance_score
  /\ bundle[1].original_score < bundle[Len(bundle)].original_score

\* C4: a returned context list has at most 5 entries and at most as many
\* entries as there are fused (deduplicated) candidates.
C4_TopKBound ==
  BundleBuilt => /\ Len(bundle) <= 5
                 /\ Len(bundle) <= Cardinality(FusedIds)

C4_Witness ==
  /\ pc = "done"
  /\ use_query_rewrite
  /\ Cardinality(FusedIds) > 5
  /\ Len(bundle) = 5

\* C5 (as claimed): when a rerank of the request failed, the request ends
\* with a context list holding min(5, fused candidates) entries in
\* original_score order, each with relevance_score = original_score.
C5_RerankFailureStillAnswers ==
  (Ended /\ \E v \in 1..Len(reranks) : RerankFailed(v)) =>
    /\ pc = "done"
    /\ Len(bundle) = Min(5, Cardinality(FusedIds))
    /\ \A i \in 1..Len(bundle) : bundle[i].relevance_score = bundle[i].original_score
    /\ \A i, j \in 1..Len(bundle) :
         i < j => bundle[i].original_score >= bundle[j].original_score

AllSearchesFailed ==
  /\ Len(searches) >= 1
  /\ \A v \in 1..Len(searches) : searches[v].index.raises

\* C6 (as claimed): when every search of the request failed, the request
\* ends with an error instead of a context list.
C6_TotalFailureSurfaces ==
  (Ended /\ AllSearchesFailed) => pc = "error"

\* C6 (amended): when every search of the request failed, no error is
\* surfaced: every failed search counts as an empty hit list and the request
\* ends with status 200 and an empty context list.
C6_TotalFailureEmptyBundle ==
  (Ended /\ AllSearchesFailed) =>
    /\ pc = "done"
    /\ output.status = 200
    /\ output.retrieval_context_used = <<>>

C6_Witness ==
  /\ pc = "done"
  /\ use_query_rewrite
  /\ Len(searches) = 2
  /\ AllSearchesFailed
  /\ output.retrieval_context_used = <<>>

Expanded == pc = "search" /\ llm_out # <<>>

\* C7: when the expansion service call fails, expand returns exactly the
\* original query, and the apology text of the failure path is no variant.
C7_ExpansionFailureFallsBack ==
  (Expanded /\ llm_out.raises) =>
    /\ expanded_queries = <<user_query>>
    /\ \A i \in 1..Len(expanded_queries) : expanded_queries[i] # SorryMessage

C7_Witness ==
  /\ Expanded
  /\ rewriter_llm = "LLMInterface"
  /\ llm_out.raises
  /\ expanded_queries = <<user_query>>

\* C8: expand returns at least one variant, whatever the service does.
C8_AtLeastOneVariant == Expanded => Len(expanded_queries) >= 1

C8_Witness ==
  /\ Expanded
  /\ rewriter_llm = "duck"
  /\ ~llm_out.raises
  /\ llm_out.text = <<"N", "U", "L", "L", "\n", " ">>
  /\ Len(expanded_queries) = 1

\* a line of whitespace only (the empty line included)
BlankLine(line) == \A i \in 1..Len(line) : line[i] \in PyWhitespace

\* a line that is blank or, trimmed and lower-cased, "none" or "null"
NoAnswerLine(line) == BlankLine(line) \/ Lower(Strip(line)) \in {StrNone, StrNull}

\* C9: when every line of the generated text is blank or a sentinel,
\* expand returns exactly [original_query].
C9_SentinelOnlyFallsBack ==
  (Expanded /\ ~llm_out.raises
     /\ \A i \in 1..Len(SplitLines(llm_out.text)) :
          NoAnswerLine(SplitLines(llm_out.text)[i])) =>
    expanded_queries = <<user_query>>

C9_Witness ==
  /\ Expanded
  /\ ~llm_out.raises
  /\ llm_out.text = <<" ", "N", "o", "n", "e", "\r", "\n", "\f", "\n", "N", "U", "L", "L">>
  /\ expanded_queries = <<user_query>>

\* what one search call returns with reranking disabled
ReturnedWithoutRerank(v) ==
  HybridSearchWithRerank(searches[v].query, Limit, FALSE, searches[v].index,
                         [init_raises |-> TRUE])

RECURSIVE ConcatWithoutRerank(_)
ConcatWithoutRerank(v) ==
  IF v = 0 THEN <<>> ELSE ConcatWithoutRerank(v - 1) \o ReturnedWithoutRerank(v)

\* the chunks handed to assembly had reranking been disabled
FinalWithoutRerank ==
  IF use_query_rewrite THEN Fuse(ConcatWithoutRerank(Len(searches)))
  ELSE ReturnedWithoutRerank(1)

\* C10 (as claimed): a request whose scoring backend failed ends with a
\* context list, and it is the context list the same candidates give with
\* reranking disabled.
C10_FailedRerankGivesDisabledBundle ==
  (Ended /\ \E v \in 1..Len(reranks) : RerankFailed(v)) =>
    /\ pc = "done"
    /\ final_retrieval_context = FinalWithoutRerank
    /\ ~Assemble(FinalWithoutRerank).raises
    /\ bundle = Assemble(FinalWithoutRerank).bundle

\* a variant's hybrid_search raised inside (vector_retriever.py 183-185)
SearchFailed(v) == searches[v].index.raises

\* the lists returned for the variants whose search succeeded, in loop order
RECURSIVE ConcatSucceeded(_)
ConcatSucceeded(v) ==
  IF v = 0 THEN <<>>
  ELSE ConcatSucceeded(v - 1) \o (IF SearchFailed(v) THEN <<>> ELSE searches[v].returned)

\* C11: when the search of one variant fails and the search of another
\* succeeds, the loop still runs every variant, the failed variant returns
\* no hit, the fused list and the context list are made of the hits of the
\* successful variants only, and HTTP 500 is never due to the failed search
\* (it needs a failed rerank, or a context list RAGOutput refuses).
C11_PartialSearchFailure ==
  (/\ use_query_rewrite
   /\ pc \in {"fuse", "generate", "done", "error"}
   /\ \E v \in 1..Len(searches) : SearchFailed(v)
   /\ \E v \in 1..Len(searches) : ~SearchFailed(v)) =>
    /\ Len(searches) = Len(expanded_queries)
    /\ \A v \in 1..Len(searches) : SearchFailed(v) => searches[v].returned = <<>>
    /\ all_retrieval_context = ConcatSucceeded(Len(searches))
    /\ pc # "fuse" => final_retrieval_context = Fuse(ConcatSucceeded(Len(searches)))
    /\ BundleBuilt =>
         BundleIds = UNION {ReturnedIds(v) : v \in {w \in 1..Len(searches) : ~SearchFailed(w)}}
                       \cap {final_retrieval_context[i].id : i \in 1..Len(final_retrieval_context)}
    /\ pc = "error" =>
         \/ \E v \in 1..Len(searches) : RerankFailed(v)
         \/ OutputRejected(bundle)

C11_Witness ==
  /\ pc = "done"
  /\ use_query_rewrite
  /\ Len(searches) = 2
  /\ SearchFailed(1)
  /\ ~SearchFailed(2)
  /\ Len(bundle) = Len(searches[2].returned)
  /\ Len(bundle) >= 2

FirstVariantWith(id) ==
  CHOOSE v \in 1..Len(searches) :
    id \in ReturnedIds(v) /\ \A w \in 1..(v - 1) : id \notin ReturnedIds(w)

\* the score the index gave to id in the answer to variant v
HitScore(v, id) ==
  LET points == searches[v].index.points
  IN  points[CHOOSE i \in 1..Len(points) : points[i].id = id].score

\* C13: original_score of a context entry is the score the index gave to the
\* hit the candidate was made from, and reranking leaves content, source and
\* score of every returned passage as the search found them.
C13_OriginalScorePreserved ==
  /\ BundleBuilt =>
       \A i \in 1..Len(bundle) :
         LET id == bundle[i].chunk_id
         IN  /\ bundle[i].original_score = HitScore(FirstVariantWith(id), id)
             /\ bundle[i].content = ContentOf(id)
             /\ bundle[i].source_document =
                  <<"book: ">> \o BookOf(id) \o <<" - chapter: ">> \o ChapterOf(id)
  /\ \A v \in 1..Len(searches) : \A i \in 1..Len(searches[v].returned) :
       LET d == searches[v].returned[i]
       IN  \E j \in 1..Len(searches[v].results) :
             LET r == searches[v].results[j]
             IN  /\ [k \in DOMAIN r |-> d[k]] = r
                 /\ "original_score" \in DOMAIN d => d.original_score = r.score

\* three hits with scores 3, 2, 1 reranked into the opposite order keep
\* their original scores 1, 2, 3
C13_Witness ==
  /\ pc = "done"
  /\ ~use_query_rewrite
  /\ Len(bundle) = 3
  /\ \A i \in 1..3 :
       /\ bundle[i].chunk_id = searches[1].results[4 - i].id
       /\ bundle[i].original_score = i
       /\ bundle[i].relevance_score # bundle[i].original_score

\* the lists the search calls returned, concatenated in the order the
\* variants were submitted
RECURSIVE ConcatReturned(_)
ConcatReturned(v) ==
  IF v = 0 THEN <<>> ELSE ConcatReturned(v - 1) \o searches[v].returned

\* C14: the fused list and the context list are a function of the
\* per-variant lists taken in submission order: the k-th search call is for
\* the k-th variant, the concatenation follows that order, and the fused
\* list is the dedup, sort and cut of that concatenation.
C14_Deterministic ==
  /\ \A k \in 1..Len(searches) :
       use_query_rewrite => searches[k].query = expanded_queries[k]
  /\ (use_query_rewrite /\ pc \in {"search", "fuse", "generate", "done", "error"}) =>
       all_retrieval_context = ConcatReturned(Len(searches))
  /\ (use_query_rewrite /\ pc \in {"generate", "done", "error"}) =>
       /\ final_retrieval_context = Fuse(ConcatReturned(Len(searches)))
       /\ Assemble(Fuse(ConcatReturned(Len(searches)))).raises => pc = "error"
       /\ pc = "error" =>
            \/ Assemble(Fuse(ConcatReturned(Len(searches)))).raises
            \/ OutputRejected(Assemble(Fuse(ConcatReturned(Len(searches)))).bundle)
       /\ BundleBuilt => bundle = Assemble(Fuse(ConcatReturned(Len(searches)))).bundle

\* two variants whose lists overlap and whose order matters to the result
C14_Witness ==
  /\ pc = "done"
  /\ use_query_rewrite
  /\ Len(searches) = 2
  /\ ReturnedIds(1) \cap ReturnedIds(2) # {}
  /\ Fuse(searches[2].returned \o searches[1].returned) # final_retrieval_context

\* C15: a request in which the search of at least one variant succeeded ends
\* with a context list and HTTP 200, never with an error, whatever failed in
\* expansion, in the other searches or in reranking.
C15_SearchSuccessEndsDone ==
  (Ended /\ \E v \in 1..Len(searches) : ~SearchFailed(v)) => pc = "done"

\* the three characters api.py appends after a cut
EndsWithMarker(p) ==
  Len(p) >= 3 /\ SubSeq(p, Len(p) - 2, Len(p)) = <<".", ".", ".">>

\* C16: text_preview of a context entry is the content when the content has
\* at most 200 characters, and otherwise its first 200 characters followed
\* by "..."; the marker is there exactly when the content was cut.
C16_TextPreview ==
  BundleBuilt =>
    \A i \in 1..Len(bundle) :
      LET c == bundle[i].content
          p == bundle[i].text_preview
      IN  /\ Len(c) <= 200 => p = c
          /\ Len(c) > 200 =>
               /\ Len(p) = 203
               /\ \A k \in 1..200 : p[k] = c[k]
               /\ \A k \in 201..203 : p[k] = "."
          /\ EndsWithMarker(p) <=> Len(c) > 200

C16_Witness ==
  /\ pc = "done"
  /\ Len(bundle) = 1
  /\ Len(bundle[1].content) = 201
  /\ Len(bundle[1].text_preview) = 203
  /\ EndsWithMarker(output.retrieval_context_used[1].text_preview)

FinalIds == {final_retrieval_context[i].id : i \in 1..Len(final_retrieval_context)}

\* C18: whatever the ids are, the fused list holds only ids of the returned
\* lists and loses none of them before the cut to five.
C18_DedupComplete ==
  (use_query_rewrite /\ pc \in {"generate", "done", "error"}) =>
    /\ FinalIds \subseteq FusedIds
    /\ Cardinality(FinalIds) = Min(FinalTopK, Cardinality(FusedIds))
    /\ {Dedup(all_retrieval_context, {})[i].id :
          i \in 1..Len(Dedup(all_retrieval_context, {}))} = FusedIds

CallsOf(op) == {i \in 1..Len(calls) : calls[i].op = op}

\* C19 as claimed: no rerank call precedes a search call of the request,
\* and no rerank call is made before the lists are fused.
C19_RerankAfterAllSearches ==
  /\ \A i \in CallsOf("rerank") : \A j \in CallsOf("search") : j < i
  /\ (use_query_rewrite /\ CallsOf("rerank") # {}) => pc \in {"generate", "done", "error"}

\* C19 amended: each rerank call directly follows the search call of its own
\* variant, with that variant's text; the searches are made in variant
\* order, each followed by its rerank when it has hits and the reranker
\* loads; the lists are fused once, after the last variant's search and
\* rerank.
C19_SearchThenRerankPerVariant ==
  /\ \A i \in CallsOf("rerank") :
       /\ i > 1
       /\ calls[i - 1].op = "search"
       /\ calls[i - 1].query = calls[i].query
  /\ Cardinality(CallsOf("search")) = Len(searches)
  /\ Cardinality(CallsOf("rerank")) =
       Cardinality({v \in 1..Len(searches) : reranks[v] \in {"raises", "ok"}})
  /\ (use_query_rewrite /\ pc \in {"generate", "done", "error"}) =>
       Len(searches) = Len(expanded_queries)
  /\ pc \in {"search", "fuse"} => final_retrieval_context = <<>> /\ bundle = <<>>
  /\ \A i \in CallsOf("generate") : i = Len(calls) /\ CallsOf("generate") = {i}

\* two variants, both reranked: search, rerank, search, rerank, then fusion
C19_Witness ==
  /\ pc = "done"
  /\ use_query_rewrite
  /\ Len(searches) = 2
  /\ [i \in 1..Len(calls) |-> calls[i].op]
       = <<"expand", "search", "rerank", "search", "rerank", "generate">>
  /\ Len(bundle) > 0

\* position of the first chunk of id in concatenation order
FirstSeenAt(id) ==
  CHOOSE k \in 1..Len(all_retrieval_context) :
    /\ all_retrieval_context[k].id = id
    /\ \A m \in 1..(k - 1) : all_retrieval_context[m].id # id

\* the fusion score of a fused chunk: original_score, or score when the
\* rerank did not run
FusionScore(x) == IF "original_score" \in DOMAIN x THEN x.original_score ELSE x.score

\* C20 as claimed: the fused list is in descending order of original_score,
\* equal scores in first-seen order.
C20_SortedByOriginalScore ==
  (use_query_rewrite /\ pc \in {"generate", "done", "error"}) =>
    \A i, j \in 1..Len(final_retrieval_context) :
      i < j =>
        LET a == final_retrieval_context[i]
            b == final_retrieval_context[j]
        IN  \/ FusionScore(a) > FusionScore(b)
            \/ FusionScore(a) = FusionScore(b) /\ FirstSeenAt(a.id) < FirstSeenAt(b.id)

\* C20 amended: the fused list is in descending order of rerank_score (0 for
\* a chunk without one), equal keys in first-seen order.
C20_SortedByRerankScore ==
  (use_query_rewrite /\ pc \in {"generate", "done", "error"}) =>
    \A i, j \in 1..Len(final_retrieval_context) :
      i < j =>
        LET a == final_retrieval_context[i]
            b == final_retrieval_context[j]
        IN  \/ RerankKey(a) > RerankKey(b)
            \/ RerankKey(a) = RerankKey(b) /\ FirstSeenAt(a.id) < FirstSeenAt(b.id)

\* a fused list with a tie kept in first-seen order and a pair that the
\* rerank score orders against the original score
C20_Witness ==
  /\ pc = "done"
  /\ use_query_rewrite
  /\ Len(searches) = 2
  /\ \E i, j \in 1..Len(final_retrieval_context) :
       /\ i < j
       /\ RerankKey(final_retrieval_context[i]) = RerankKey(final_retrieval_context[j])
  /\ \E i, j \in 1..Len(final_retrieval_context) :
       /\ i < j
       /\ RerankKey(final_retrieval_context[i]) > RerankKey(final_retrieval_context[j])
       /\ FusionScore(final_retrieval_context[i]) < FusionScore(final_retrieval_context[j])

\* the lists returned to request r, concatenated in loop order
RECURSIVE ConcatOf(_, _)
ConcatOf(ss, v) == IF v = 0 THEN <<>> ELSE ConcatOf(ss, v - 1) \o ss[v].returned

\* the chunks a request with the locals r hands to assembly when no other
\* request runs: a function of its own search calls
AloneFinal(r) ==
  IF r.use_query_rewrite THEN Fuse(ConcatOf(r.searches, Len(r.searches)))
  ELSE r.searches[1].returned

\* request r holds what it holds when it runs alone: its calls carry its own
\* query or variants, its lists are made of the answers to its own search
\* calls, and its context list and answer are built from them
RanAlone(r) ==
  /\ \A i \in 1..Len(r.calls) :
       r.calls[i].query \in
         {r.user_query} \cup {r.expanded_queries[k] : k \in 1..Len(r.expanded_queries)}
  /\ \A v \in 1..Len(r.searches) :
       /\ r.searches[v].query =
            (IF r.use_query_rewrite THEN r.expanded_queries[v] ELSE r.user_query)
       /\ \A i \in 1..Len(r.searches[v].returned) :
            \E j \in 1..Len(r.searches[v].index.points) :
              r.searches[v].returned[i].id = r.searches[v].index.points[j].id
  /\ r.pc \in {"idle", "expand", "direct"} =>
       r.searches = <<>> /\ r.all_retrieval_context = <<>> /\ r.bundle = <<>>
  /\ r.use_query_rewrite =>
       r.all_retrieval_context = ConcatOf(r.searches, Len(r.searches))
  /\ r.pc \in {"assemble", "generate", "done", "error"} =>
       r.final_retrieval_context = AloneFinal(r)
  /\ r.pc \in {"generate", "done", "error"} =>
       /\ Assemble(AloneFinal(r)).raises => r.pc = "error"
       /\ r.pc = "error" =>
            \/ Assemble(AloneFinal(r)).raises
            \/ OutputRejected(Assemble(AloneFinal(r)).bundle)
  /\ r.pc \in {"generate", "done"} => r.bundle = Assemble(AloneFinal(r)).bundle
  /\ r.pc = "done" =>
       /\ ~OutputRejected(Assemble(AloneFinal(r)).bundle)
       /\ r.output.retrieval_context_used = OutputChunks(Assemble(AloneFinal(r)).bundle)
       /\ r.output.query_used = r.user_query
       /\ r.calls[Len(r.calls)].query = r.user_query

\* C17: with two requests in flight, under any interleaving of their steps,
\* each request's variants, hits, candidates and context list are those it
\* has when it runs alone; nothing of one request shows in the other.
C17_Isolation == RanAlone(Frame) /\ RanAlone(waiting)

\* both requests are between assembly and generation at the same time, with
\* context lists of different passages for different queries
C17_Witness ==
  /\ pc = "generate"
  /\ waiting.pc = "generate"
  /\ use_query_rewrite
  /\ Len(searches) = 2
  /\ user_query # waiting.user_query
  /\ bundle # <<>>
  /\ waiting.bundle # <<>>
  /\ BundleIds # {waiting.bundle[i].chunk_id : i \in 1..Len(waiting.bundle)}

\* position of the passage id in a list of documents
PosIn(docs, id) == CHOOSE i \in 1..Len(docs) : docs[i].id = id

\* C21: a rerank that scored returns the scored documents in descending
\* order of rerank_score, equal scores in their order before the rerank, cut
\* to the first top_k of that order.
C21_RerankSortedTruncated ==
  \A v \in 1..Len(searches) :
    reranks[v] = "ok" =>
      LET res == searches[v].results
          ret == searches[v].returned
          sc == searches[v].scores
          n == Min(Len(res), Len(sc))
          kept == {PosIn(res, ret[i].id) : i \in 1..Len(ret)}
      IN  /\ Len(ret) = Min(searches[v].top_k, n)
          /\ kept \subseteq 1..n
          /\ \A i \in 1..Len(ret) : ret[i].rerank_score = sc[PosIn(res, ret[i].id)]
          /\ \A i, j \in 1..Len(ret) :
               i < j =>
                 \/ ret[i].rerank_score > ret[j].rerank_score
                 \/ /\ ret[i].rerank_score = ret[j].rerank_score
                    /\ PosIn(res, ret[i].id) < PosIn(res, ret[j].id)
          /\ \A p \in (1..n) \ kept : \A q \in kept :
               sc[p] < sc[q] \/ (sc[p] = sc[q] /\ q < p)

\* seven hits reranked into the opposite order and cut to five
C21_Witness ==
  /\ Len(searches) = 1
  /\ reranks[1] = "ok"
  /\ Len(searches[1].results) = 7
  /\ Len(searches[1].scores) = 7
  /\ Len(searches[1].returned) = 5
  /\ \A i \in 1..5 : searches[1].returned[i].id = searches[1].results[8 - i].id

\* C22: a rerank of an empty list returns an empty list without a call of
\* the scoring backend, whatever the backend would have answered; and a
\* search that found nothing returns nothing and makes no rerank call.
C22_EmptyRerankNoBackend ==
  \A v \in 1..Len(searches) :
    searches[v].results = <<>> =>
      /\ searches[v].returned = <<>>
      /\ searches[v].scores = <<>>
      /\ reranks[v] = "skipped"
      /\ Len(searches) = 1 => CallsOf("rerank") = {}

\* rerank was called alone with an empty list
C22_Witness ==
  /\ pc = "returned"
  /\ Len(searches) = 1
  /\ searches[1].results = <<>>
  /\ searches[1].returned = <<>>
  /\ calls = <<>>

\* every search of the request succeeded and found nothing
AllSearchesEmpty ==
  /\ Len(searches) >= 1
  /\ \A v \in 1..Len(searches) : ~SearchFailed(v) /\ searches[v].results = <<>>

\* C23: when every search succeeds without a hit, the fused list is empty
\* and the request ends with HTTP 200 and an empty context list, never with
\* an error.
C23_NoHitsEmptyBundle ==
  (AllSearchesEmpty /\ pc \in {"assemble", "generate", "done", "error"}) =>
    /\ pc # "error"
    /\ all_retrieval_context = <<>>
    /\ final_retrieval_context = <<>>
    /\ bundle = <<>>
    /\ CallsOf("rerank") = {}
    /\ pc = "done" => output.status = 200 /\ output.retrieval_context_used = <<>>

C23_Witness ==
  /\ pc = "done"
  /\ use_query_rewrite
  /\ Len(searches) = 2
  /\ AllSearchesEmpty
  /\ output.status = 200
  /\ output.retrieval_context_used = <<>>

\* C24: without expansion the expander is never called and the request makes
\* exactly one search, for the original query; with expansion the expander
\* is called exactly once, for the original query with count 3, before any
\* search.
C24_ExpanderCalls ==
  /\ ~use_query_rewrite =>
       /\ CallsOf("expand") = {}
       /\ expanded_queries = <<>>
       /\ Cardinality(CallsOf("search")) = (IF pc \in {"idle", "direct"} THEN 0 ELSE 1)
       /\ \A i \in CallsOf("search") : calls[i].query = user_query
  /\ use_query_rewrite =>
       /\ pc = "expand" => calls = <<>>
       /\ pc # "expand" =>
            /\ CallsOf("expand") = {1}
            /\ calls[1].query = user_query
            /\ calls[1].n = 3
       /\ \A i \in CallsOf("search") : i > 1

C24_Witness ==
  /\ pc = "done"
  /\ use_query_rewrite
  /\ Cardinality(CallsOf("search")) = 2
  /\ CallsOf("expand") = {1}
  /\ calls[1] = [op |-> "expand", query |-> user_query, n |-> 3]

\* the lines of the generated text that carry a query, trimmed, in order
UsableLines(text) ==
  LET lines == SplitLines(text)
      Carries(line) == ~NoAnswerLine(line)
      kept == SelectSeq(lines, Carries)
  IN  [i \in 1..Len(kept) |-> Strip(kept[i])]

\* C25: when the generated text has a usable line, expand returns the
\* trimmed usable lines in their order, duplicates included, and no variant
\* is empty or a sentinel.
C25_ExpandReturnsUsableLines ==
  (Expanded /\ ~llm_out.raises /\ UsableLines(llm_out.text) # <<>>) =>
    /\ expanded_queries = UsableLines(llm_out.text)
    /\ \A i \in 1..Len(expanded_queries) :
         /\ expanded_queries[i] # <<>>
         /\ Lower(expanded_queries[i]) \notin {StrNone, StrNull}
         /\ ~IsSpace(Head(expanded_queries[i]))
         /\ ~IsSpace(expanded_queries[i][Len(expanded_queries[i])])

\* three lines, a sentinel between two equal queries: both queries returned
C25_Witness ==
  /\ Expanded
  /\ ~llm_out.raises
  /\ Len(SplitLines(llm_out.text)) = 3
  /\ NoAnswerLine(SplitLines(llm_out.text)[2])
  /\ Len(expanded_queries) = 2
  /\ expanded_queries[1] = expanded_queries[2]
  /\ expanded_queries[1] # user_query

\* C26: a request that ends with HTTP 200 reports the original query as
\* query_used, and made exactly one generation call, as its last call, with
\* the original query and the assembled context list, which the output
\* carries with every chunk_id a string.  No generation call is made before
\* assembly; a request that ends with an error made none, or made that one
\* call and had its output refused by RAGOutput.
C26_GenerationUsesOriginalQuery ==
  /\ pc = "done" =>
       /\ output.status = 200
       /\ output.query_used = user_query
       /\ ~OutputRejected(bundle)
       /\ output.retrieval_context_used = OutputChunks(bundle)
       /\ CallsOf("generate") = {Len(calls)}
       /\ calls[Len(calls)].query = user_query
       /\ calls[Len(calls)].context = bundle
       /\ use_query_rewrite => calls[1].query = user_query
  /\ pc = "error" =>
       /\ CallsOf("generate") \subseteq {Len(calls)}
       /\ CallsOf("generate") # {} =>
            /\ OutputRejected(bundle)
            /\ calls[Len(calls)].query = user_query
            /\ calls[Len(calls)].context = bundle
  /\ pc \notin {"done", "error"} => CallsOf("generate") = {}

\* the search ran on a variant that differs from the query, and the
\* generation call and the output still carry the query
C26_Witness ==
  /\ pc = "done"
  /\ use_query_rewrite
  /\ \A v \in 1..Len(searches) : searches[v].query # user_query
  /\ Len(bundle) > 0
  /\ output.query_used = user_query
  /\ calls[Len(calls)].op = "generate"
  /\ calls[Len(calls)].query = user_query

\* C27: hybrid_search_with_query_rewrite never raises.  Without an
\* interface, or when the rewriting call fails, it makes one search, for the
\* original query, with the limit and use_rerank it was given; otherwise it
\* makes one search for the query rewrite_query returned, and returns what
\* that search returned.
C27_QueryRewriteNeverRaises ==
  /\ pc # "error"
  /\ pc = "returned" =>
       LET fallback == rewriter_llm = "none" \/ llm_out.raises
           rewritten ==
             IF NoAnswerLine(llm_out.text) THEN user_query ELSE Strip(llm_out.text)
           i == CHOOSE k \in CallsOf("search") : TRUE
       IN  /\ Cardinality(CallsOf("search")) = 1
           /\ Len(searches) = 1
           /\ calls[i].n = 2 * searches[1].top_k
           /\ calls[i].query = searches[1].query
           /\ fallback => searches[1].query = user_query
           /\ ~fallback => searches[1].query = rewritten
           /\ (rewriter_llm = "none") = (CallsOf("rewrite") = {})
           /\ ~searches[1].use_rerank =>
                /\ CallsOf("rerank") = {}
                /\ searches[1].returned = Take(searches[1].results, searches[1].top_k)
           /\ searches[1].use_rerank =>
                \A k \in CallsOf("rerank") :
                  calls[k].query = searches[1].query /\ calls[k].n = searches[1].top_k
           /\ Len(searches[1].returned) <= searches[1].top_k

\* the rewriting call failed and the search was made for the original query
C27_Witness ==
  /\ pc = "returned"
  /\ rewriter_llm = "duck"
  /\ llm_out.raises
  /\ searches[1].query = user_query
  /\ searches[1].use_rerank
  /\ reranks[1] = "ok"
  /\ Len(searches[1].returned) = 2

\* C28: after a rerank call the caller's list holds the same records in the
\* same order, none with a rerank_score or original_score field; the scores
\* are on the returned records, which otherwise equal the caller's.
C28_RerankInputUnchanged ==
  \A v \in 1..Len(searches) :
    /\ searches[v].after = searches[v].results
    /\ \A i \in 1..Len(searches[v].after) :
         DOMAIN searches[v].after[i] = {"content", "book_name", "chapter", "score", "id"}
    /\ reranks[v] = "ok" =>
         \A i \in 1..Len(searches[v].returned) :
           LET d == searches[v].returned[i]
               r == searches[v].after[PosIn(searches[v].after, d.id)]
           IN  /\ {"rerank_score", "original_score"} \subseteq DOMAIN d
               /\ [k \in DOMAIN r |-> d[k]] = r

\* rerank alone scored three documents and returned them in another order
C28_Witness ==
  /\ pc = "returned"
  /\ reranks[1] = "ok"
  /\ Len(searches[1].results) = 3
  /\ Len(searches[1].returned) = 3
  /\ searches[1].returned[1].id = searches[1].results[3].id
  /\ searches[1].after = searches[1].results
  /\ "rerank_score" \in DOMAIN searches[1].returned[1]

\* C29: when the backend gives fewer scores than there are documents, the
\* i-th document is paired with the i-th score, the documents after the last
\* score are dropped, the result has min(top_k, documents, scores) entries,
\* all with a rerank_score, and the call does not fail.
C29_FewerScoresTruncates ==
  \A v \in 1..Len(searches) :
    (reranks[v] = "ok" /\ Len(searches[v].scores) < Len(searches[v].results)) =>
      LET res == searches[v].results
          ret == searches[v].returned
          sc == searches[v].scores
      IN  /\ Len(ret) = Min(searches[v].top_k, Min(Len(res), Len(sc)))
          /\ \A i \in 1..Len(ret) :
               /\ PosIn(res, ret[i].id) <= Len(sc)
               /\ HasScores(ret[i])
               /\ ret[i].rerank_score = sc[PosIn(res, ret[i].id)]
               /\ ret[i].original_score = res[PosIn(res, ret[i].id)].score
          /\ \A p \in (Len(sc) + 1)..Len(res) :
               \A i \in 1..Len(ret) : ret[i].id # res[p].id

\* three documents, two scores, top_k 3: two entries, the third document
\* dropped
C29_Witness ==
  /\ pc = "returned"
  /\ reranks[1] = "ok"
  /\ Len(searches[1].results) = 3
  /\ Len(searches[1].scores) = 2
  /\ searches[1].top_k = 3
  /\ Len(searches[1].returned) = 2
  /\ \A i \in 1..2 : searches[1].returned[i].id # searches[1].results[3].id

\* C30: expand is asked for 3 variants and returns as many as the generated
\* text has usable lines (at least one), fewer or more than 3, and the
\* pipeline makes one search per variant.
C30_CountNotEnforced ==
  (use_query_rewrite /\ pc \notin {"idle", "expand"}) =>
    /\ calls[1].op = "expand" /\ calls[1].n = 3
    /\ (~llm_out.raises /\ UsableLines(llm_out.text) # <<>>) =>
         Len(expanded_queries) = Len(UsableLines(llm_out.text))
    /\ Len(searches) <= Len(expanded_queries)
    /\ Cardinality(CallsOf("search")) = Len(searches)
    /\ pc \in {"fuse", "generate", "done", "error"} =>
         Cardinality(CallsOf("search")) = Len(expanded_queries)

\* four usable lines: four variants and four searches for a count of 3
C30_Witness ==
  /\ pc = "done"
  /\ use_query_rewrite
  /\ ~llm_out.raises
  /\ calls[1].n = 3
  /\ Len(UsableLines(llm_out.text)) = 4
  /\ Len(expanded_queries) = 4
  /\ Cardinality(CallsOf("search")) = 4

====
